---------------------------- MODULE Spec2Model ----------------------------
(***************************************************************************)
(* Model of oauth2-http-client: the HttpInterface transport contract, the  *)
(* OAuth2Client adapter (src/src/lib.rs) and the reqwest-backed reference  *)
(* transport HttpClient::perform (src/src/test.rs, and the identical one   *)
(* of src/examples/oauth2_device_flow.rs).                                 *)
(*                                                                         *)
(* A future returned by OAuth2Client::call is lazy: call only clones the   *)
(* transport handle and boxes the async block; perform is first invoked    *)
(* when the future is polled.  Each call c has its own future, whose       *)
(* captured variables (interface, request) and position are the fields     *)
(* indexed by c below.                                                     *)
(***************************************************************************)
EXTENDS Naturals, Sequences, FiniteSets

(* ------------------------------- bounds -------------------------------- *)

\* number of call invocations one run makes on the adapter
NumCalls == 2
\* number of distinct request tokens the protocol engine uses
NumTokens == 2
\* most header pairs in one header map
MaxHeaders == 2
\* most bytes in one body
MaxBody == 2

Calls == 1..NumCalls
Tokens == 1..NumTokens
Bytes == {0, 1}

(* ----------------------------- HTTP values ----------------------------- *)

Methods == {"GET", "POST"}
Statuses == {200, 500}
\* header (name, value) pairs: a name with two values, and a second name
HeaderPairs == {<<"a", "x">>, <<"a", "y">>, <<"b", "x">>}

SeqsUpTo(S, n) == UNION {[1..k -> S] : k \in 0..n}

\* Result<T, E>
Ok(v) == [tag |-> "Ok", value |-> v]
Err(e) == [tag |-> "Err", error |-> e]
\* no value yet (a future that has not resolved, an Option::None)
None == [tag |-> "None"]

(* http::HeaderMap: a multimap that keeps the values of one name together. *)
(* Modelled as the sequence of (name, value) pairs in iteration order.     *)

LastIndexOf(h, n) ==
    LET I == {i \in 1..Len(h) : h[i][1] = n}
    IN IF I = {} THEN 0 ELSE CHOOSE i \in I : \A j \in I : j <= i

\* HeaderMap::append: the value joins the values already held for the name
HeaderAppend(h, n, v) ==
    LET k == LastIndexOf(h, n)
    IN IF k = 0 THEN Append(h, <<n, v>>)
       ELSE SubSeq(h, 1, k) \o <<(<<n, v>>)>> \o SubSeq(h, k + 1, Len(h))

\* a sequence of pairs is a header map when the pairs of one name are adjacent
IsHeaderMap(h) ==
    \A i, j \in 1..Len(h) :
        (i < j /\ h[i][1] = h[j][1]) => \A k \in i..j : h[k][1] = h[i][1]

HeaderMaps == {h \in SeqsUpTo(HeaderPairs, MaxHeaders) : IsHeaderMap(h)}
Bodies == SeqsUpTo(Bytes, MaxBody)

(* http::Uri.  An absolute URI has a scheme and an authority, a relative   *)
(* one only a path.                                                        *)
Uris == {[scheme |-> "http", authority |-> "h", path |-> "/device"],
         [scheme |-> "", authority |-> "", path |-> "/device"]}


(* oauth2::HttpRequest and HttpResponse *)
MkRequest(m, u, h, b) == [method |-> m, uri |-> u, headers |-> h, body |-> b]
MkResponse(s, h, b) == [status |-> s, headers |-> h, body |-> b]

\* the requests of the concurrency runs: one endpoint, told apart by a token
\* carried in the body
Requests == {MkRequest("POST", [scheme |-> "http", authority |-> "h", path |-> "/device"],
                       <<>>, <<t>>) : t \in Tokens}

\* what a transport can answer to one request: a response of any status that
\* echoes the request's token, or a transport error naming the request's target
Outcomes(req) ==
    {Ok(MkResponse(s, <<>>, req.body)) : s \in Statuses}
        \cup {Err([kind |-> "connect", target |-> req.uri, token |-> req.body])}

AllOutcomes == UNION {Outcomes(req) : req \in Requests}

(* ------------------------------- state --------------------------------- *)

VARIABLES
    adapterAlive,   \* the OAuth2Client value exists
    interface,      \* OAuth2Client.interface, the adapter's transport handle
    borrows,        \* calls whose future type still holds the borrow &'c self
    pc,             \* position of each call's future
    request,        \* the request captured by the future (async move)
    handle,         \* the transport handle captured by the future
    arg,            \* the request perform was invoked with
    performs,       \* how many times perform was invoked for the call
    io,             \* outcome of the transport's outstanding I/O, once complete
    performed,      \* what perform returned
    result,         \* what the call's future resolved to
    resolutions,    \* how many times the future resolved
    finished,       \* the calls in the order they resolved
    dropsSeen,      \* the futures already dropped when the call was invoked
    wire,           \* reference transport: the outbound request given to send()
    peer,           \* reference transport: what the network returned at each await
    resp,           \* reference transport: status and headers taken from resp
    steps           \* reference transport: the steps of perform that ran

vars == <<adapterAlive, interface, borrows, pc, request, handle, arg, performs, io,
          performed, result, resolutions, finished, dropsSeen, wire, peer, resp, steps>>

adapterVars == <<adapterAlive, interface>>
refVars == <<wire, peer, resp, steps>>

\* the handle given to OAuth2Client::new
Handle0 == [pool |-> "client", owner |-> 0]

Live(c) == pc[c] \in {"created", "pending", "sending", "reading"}
Issued == {c \in Calls : pc[c] # "none"}

Init ==
    /\ adapterAlive = TRUE
    /\ interface = Handle0
    /\ borrows = {}
    /\ pc = [c \in Calls |-> "none"]
    /\ request = [c \in Calls |-> None]
    /\ handle = [c \in Calls |-> None]
    /\ arg = [c \in Calls |-> None]
    /\ performs = [c \in Calls |-> 0]
    /\ io = [c \in Calls |-> None]
    /\ performed = [c \in Calls |-> None]
    /\ result = [c \in Calls |-> None]
    /\ resolutions = [c \in Calls |-> 0]
    /\ finished = <<>>
    /\ dropsSeen = [c \in Calls |-> {}]
    /\ wire = [c \in Calls |-> None]
    /\ peer = [c \in Calls |-> <<>>]
    /\ resp = [c \in Calls |-> None]
    /\ steps = [c \in Calls |-> <<>>]

(* --------------------------- OAuth2Client ------------------------------ *)

\* mutant: the future uses the adapter's own handle instead of a duplicate
CloneHandleBorrow(h, c) == h

\* self.interface.clone(): a handle of the call's own on the same transport
CloneHandle(h, c) == [pool |-> h.pool, owner |-> c]

\* mutant: a transport error is swallowed and replaced by a default response
CallResultSwallow(r) ==
    IF r.tag = "Ok" THEN Ok(r.value) ELSE Ok(MkResponse(500, <<>>, <<>>))

\* mutant: the adapter inspects the status and turns a non-2xx one into an error
CallResultStatusCheck(r) ==
    IF r.tag = "Ok"
    THEN IF r.value.status \in 200..299
         THEN Ok(r.value)
         ELSE Err([kind |-> "status", status |-> r.value.status])
    ELSE Err(r.error)

\* mutant: an error is delivered together with a placeholder response
CallResultPartial(r) ==
    IF r.tag = "Ok" THEN Ok(r.value)
    ELSE [tag |-> "Ok", value |-> MkResponse(500, <<>>, <<>>), error |-> r.error]

\* `interface.perform(request).await?` then `Ok(result)`.  The ? converts the
\* error with From<HI::Error> for HI::Error, the reflexive impl, which returns
\* its argument.
CallResult(r) == IF r.tag = "Ok" THEN Ok(r.value) ELSE Err(r.error)

\* the future returns: it resolves to CallResult(r) and is consumed, which drops
\* the captured handle and ends the borrow of the adapter
Resolve(c, r) ==
    /\ performed' = [performed EXCEPT ![c] = r]
    /\ result' = [result EXCEPT ![c] = CallResult(r)]
    /\ resolutions' = [resolutions EXCEPT ![c] = @ + 1]
    /\ pc' = [pc EXCEPT ![c] = "ready"]
    /\ handle' = [handle EXCEPT ![c] = None]
    /\ borrows' = borrows \ {c}
    /\ finished' = Append(finished, c)

\* OAuth2Client::call(&'c self, request): clones the handle and boxes the async
\* block; nothing of the block has run yet.  Calls are numbered in the order of
\* their invocation.
Call(c, req) ==
    /\ adapterAlive
    /\ pc[c] = "none"
    /\ c = Cardinality(Issued) + 1
    /\ handle' = [handle EXCEPT ![c] = CloneHandle(interface, c)]
    /\ request' = [request EXCEPT ![c] = req]
    /\ borrows' = borrows \cup {c}
    /\ pc' = [pc EXCEPT ![c] = "created"]
    /\ dropsSeen' = [dropsSeen EXCEPT ![c] = {d \in Calls : pc[d] = "dropped"}]
    /\ UNCHANGED <<adapterVars, arg, performs, io, performed, result, resolutions,
                   finished, refVars>>

\* mutant: cancellation goes through a flag shared by the adapter's calls, so
\* dropping one future cancels every live one
DropFutureCancelsAll(c) ==
    /\ Live(c)
    /\ pc' = [d \in Calls |-> IF Live(d) THEN "dropped" ELSE pc[d]]
    /\ handle' = [d \in Calls |-> IF Live(d) THEN None ELSE handle[d]]
    /\ borrows' = {}
    /\ UNCHANGED <<adapterVars, request, arg, performs, io, performed, result,
                   resolutions, finished, dropsSeen, refVars>>

\* the caller drops the future before it completed
DropFuture(c) ==
    /\ Live(c)
    /\ pc' = [pc EXCEPT ![c] = "dropped"]
    /\ handle' = [handle EXCEPT ![c] = None]
    /\ borrows' = borrows \ {c}
    /\ UNCHANGED <<adapterVars, request, arg, performs, io, performed, result,
                   resolutions, finished, dropsSeen, refVars>>

\* the owner drops the adapter; the borrow checker allows it only when no
\* future of type `dyn Future + 'c` borrowing it is left
DropAdapter ==
    /\ adapterAlive
    /\ borrows = {}
    /\ adapterAlive' = FALSE
    /\ interface' = None
    /\ UNCHANGED <<borrows, pc, request, handle, arg, performs, io, performed, result,
                   resolutions, finished, dropsSeen, refVars>>

(* ------------------- HttpInterface, any transport ---------------------- *)

\* mutant: the request is kept in a slot shared by the adapter's calls, which
\* the latest call overwrote
PollFirstSharedSlot(c) ==
    /\ pc[c] = "created"
    /\ arg' = [arg EXCEPT ![c] = request[Cardinality(Issued)]]
    /\ performs' = [performs EXCEPT ![c] = @ + 1]
    /\ pc' = [pc EXCEPT ![c] = "pending"]
    /\ UNCHANGED <<adapterVars, borrows, request, handle, io, performed, result,
                   resolutions, finished, dropsSeen, refVars>>

\* first poll of the future: perform is invoked on the captured handle with the
\* captured request and suspends on the transport's I/O
PollFirst(c) ==
    /\ pc[c] = "created"
    /\ arg' = [arg EXCEPT ![c] = request[c]]
    /\ performs' = [performs EXCEPT ![c] = @ + 1]
    /\ pc' = [pc EXCEPT ![c] = "pending"]
    /\ UNCHANGED <<adapterVars, borrows, request, handle, io, performed, result,
                   resolutions, finished, dropsSeen, refVars>>

\* the transport's I/O for the call's exchange completes and wakes the future
TransportComplete(c, o) ==
    /\ pc[c] = "pending"
    /\ io[c] = None
    /\ o \in Outcomes(arg[c])
    /\ io' = [io EXCEPT ![c] = o]
    /\ UNCHANGED <<adapterVars, borrows, pc, request, handle, arg, performs, performed,
                   result, resolutions, finished, dropsSeen, refVars>>

\* mutant: after a transport error the adapter invokes perform once more
ResumeRetry(c) ==
    /\ pc[c] = "pending"
    /\ io[c] # None
    /\ IF io[c].tag = "Err" /\ performs[c] < 2
       THEN /\ performs' = [performs EXCEPT ![c] = @ + 1]
            /\ io' = [io EXCEPT ![c] = None]
            /\ UNCHANGED <<adapterVars, borrows, pc, request, handle, arg, performed,
                           result, resolutions, finished, dropsSeen, refVars>>
       ELSE /\ Resolve(c, io[c])
            /\ UNCHANGED <<adapterVars, request, arg, performs, io, dropsSeen, refVars>>

\* mutant: the adapter serialises its calls, a call resuming only once every
\* call invoked before it is over
ResumeFifo(c) ==
    /\ pc[c] = "pending"
    /\ io[c] # None
    /\ \A d \in Calls : d < c => ~Live(d)
    /\ Resolve(c, io[c])
    /\ UNCHANGED <<adapterVars, request, arg, performs, io, dropsSeen, refVars>>

\* the executor polls the woken future: perform returns, then call returns
Resume(c) ==
    /\ pc[c] = "pending"
    /\ io[c] # None
    /\ Resolve(c, io[c])
    /\ UNCHANGED <<adapterVars, request, arg, performs, io, dropsSeen, refVars>>

Next ==
    \/ \E c \in Calls, req \in Requests : Call(c, req)
    \/ \E c \in Calls : PollFirst(c)
    \/ \E c \in Calls, o \in AllOutcomes : TransportComplete(c, o)
    \/ \E c \in Calls : Resume(c)
    \/ \E c \in Calls : DropFuture(c)
    \/ DropAdapter

Spec == Init /\ [][Next]_vars

(* ---------------- HttpClient::perform, the reference transport ---------- *)

\* request.uri().to_string(): Uri's Display writes the scheme and "://" when
\* there is a scheme, the authority when there is one, then the path.  The
\* string is modelled as the sequence of its parts.
UriToString(u) ==
    (IF u.scheme # "" THEN <<u.scheme, "://">> ELSE <<>>)
        \o (IF u.authority # "" THEN <<u.authority>> ELSE <<>>)
        \o <<u.path>>

\* reqwest's IntoUrl for a String: Url::parse, which refuses a string without a
\* scheme (a relative URL without a base)
IntoUrl(s) ==
    IF Len(s) = 4 /\ s[2] = "://"
    THEN Ok([scheme |-> s[1], host |-> s[3], path |-> s[4]])
    ELSE Err([kind |-> "builder", cause |-> "relative URL without a base"])

\* the URL an absolute Uri denotes
UrlOf(u) == [scheme |-> u.scheme, host |-> u.authority, path |-> u.path]

\* client.request(method, url): a RequestBuilder holding Result<Request>
ClientRequest(m, s) ==
    LET u == IntoUrl(s)
    IN IF u.tag = "Ok"
       THEN Ok([method |-> m, url |-> u.value, headers |-> <<>>, body |-> <<>>])
       ELSE u

\* RequestBuilder::body
RequestBody(rb, b) ==
    IF rb.tag = "Ok" THEN Ok([rb.value EXCEPT !.body = b]) ELSE rb

\* mutant: the pair replaces the values the map holds for the name
\* (HeaderMap::insert instead of append)
RequestHeaderInsert(rb, n, v) ==
    IF rb.tag = "Ok"
    THEN Ok([rb.value EXCEPT
                !.headers = Append(SelectSeq(@, LAMBDA p : p[1] # n), <<n, v>>)])
    ELSE rb

\* RequestBuilder::header: appends the pair to the request's header map
RequestHeader(rb, n, v) ==
    IF rb.tag = "Ok" THEN Ok([rb.value EXCEPT !.headers = HeaderAppend(@, n, v)]) ELSE rb

\* `for (name, value) in request.headers().iter() { req_builder.header(..) }`
RECURSIVE CopyRequestHeaders(_, _, _)
CopyRequestHeaders(rb, h, i) ==
    IF i > Len(h) THEN rb
    ELSE CopyRequestHeaders(RequestHeader(rb, h[i][1], h[i][2]), h, i + 1)

\* the outbound request perform builds before send()
BuildOutbound(req) ==
    CopyRequestHeaders(
        RequestBody(ClientRequest(req.method, UriToString(req.uri)), req.body),
        req.headers, 1)

\* Response::builder().status(status): a Builder holding Result<Parts>
ResponseStatus(s) == Ok([status |-> s, headers |-> <<>>])

\* response::Builder::header: appends the pair to the response's header map
ResponseHeader(b, n, v) ==
    IF b.tag = "Ok" THEN Ok([b.value EXCEPT !.headers = HeaderAppend(@, n, v)]) ELSE b

\* `for (name, value) in headers.iter() { builder.header(name, value) }`
RECURSIVE CopyResponseHeaders(_, _, _)
CopyResponseHeaders(b, h, i) ==
    IF i > Len(h) THEN b
    ELSE CopyResponseHeaders(ResponseHeader(b, h[i][1], h[i][2]), h, i + 1)

\* builder.body(body): Result<Response<Vec<u8>>, http::Error>
ResponseBody(b, body) ==
    IF b.tag = "Ok" THEN Ok(MkResponse(b.value.status, b.value.headers, body)) ELSE b

\* From<reqwest::Error> for MockError and From<http::Error> for MockError
FromReqwest(e) == [msg |-> "Reqwest error", cause |-> e]
FromHttp(e) == [msg |-> "HTTP error", cause |-> e]

\* lines 74-81: the Response assembled from status, headers and body
Assemble(status, headers, body) ==
    LET built == ResponseBody(CopyResponseHeaders(ResponseStatus(status), headers, 1), body)
    IN IF built.tag = "Ok" THEN Ok(built.value) ELSE Err(FromHttp(built.error))

\* the requests of the reference transport's runs
RefRequests == {MkRequest(m, u, h, b) : m \in Methods, u \in Uris, h \in HeaderMaps, b \in Bodies}

\* what the network answers to send(): the peer's status line and headers, or a
\* failure to connect or to send
SendOutcomes ==
    {Ok([status |-> s, headers |-> h]) : s \in Statuses, h \in HeaderMaps}
        \cup {Err([kind |-> "connect", cause |-> "connection refused"])}

\* what the network answers to bytes(): the peer's body, or a failed read
BytesOutcomes ==
    {Ok(b) : b \in Bodies} \cup {Err([kind |-> "body", cause |-> "read failed"])}

\* first poll: perform builds the outbound request and calls send(); a builder
\* that holds an error makes send() fail at once, otherwise the future suspends
PollFirstRef(c) ==
    /\ pc[c] = "created"
    /\ arg' = [arg EXCEPT ![c] = request[c]]
    /\ performs' = [performs EXCEPT ![c] = @ + 1]
    /\ wire' = [wire EXCEPT ![c] = BuildOutbound(request[c])]
    /\ steps' = [steps EXCEPT ![c] = <<"send">>]
    /\ IF BuildOutbound(request[c]).tag = "Err"
       THEN /\ Resolve(c, Err(FromReqwest(BuildOutbound(request[c]).error)))
            /\ UNCHANGED <<adapterVars, request, io, dropsSeen, peer, resp>>
       ELSE /\ pc' = [pc EXCEPT ![c] = "sending"]
            /\ UNCHANGED <<adapterVars, borrows, request, handle, io, performed, result,
                           resolutions, finished, dropsSeen, peer, resp>>

\* mutant: a failed send() is taken for an empty 500 response instead of being
\* returned with ?
SendResolvesIgnoreError(c, r) ==
    /\ pc[c] = "sending"
    /\ r \in SendOutcomes
    /\ peer' = [peer EXCEPT ![c] = Append(@, r)]
    /\ resp' = [resp EXCEPT ![c] = IF r.tag = "Err"
                                   THEN [status |-> 500, headers |-> <<>>]
                                   ELSE [status |-> r.value.status,
                                         headers |-> r.value.headers]]
    /\ steps' = [steps EXCEPT ![c] = Append(@, "bytes")]
    /\ pc' = [pc EXCEPT ![c] = "reading"]
    /\ UNCHANGED <<adapterVars, borrows, request, handle, arg, performs, io,
                   performed, result, resolutions, finished, dropsSeen, wire>>

\* `req_builder.send().await?` returns r
SendResolves(c, r) ==
    /\ pc[c] = "sending"
    /\ r \in SendOutcomes
    /\ peer' = [peer EXCEPT ![c] = Append(@, r)]
    /\ IF r.tag = "Err"
       THEN /\ Resolve(c, Err(FromReqwest(r.error)))
            /\ UNCHANGED <<adapterVars, request, arg, performs, io, dropsSeen, wire,
                           resp, steps>>
       ELSE /\ resp' = [resp EXCEPT ![c] = [status |-> r.value.status,
                                            headers |-> r.value.headers]]
            /\ steps' = [steps EXCEPT ![c] = Append(@, "bytes")]
            /\ pc' = [pc EXCEPT ![c] = "reading"]
            /\ UNCHANGED <<adapterVars, borrows, request, handle, arg, performs, io,
                           performed, result, resolutions, finished, dropsSeen, wire>>

\* `resp.bytes().await?` returns r; on success the Response is assembled and
\* perform returns
BytesResolves(c, r) ==
    /\ pc[c] = "reading"
    /\ r \in BytesOutcomes
    /\ peer' = [peer EXCEPT ![c] = Append(@, r)]
    /\ IF r.tag = "Err"
       THEN /\ Resolve(c, Err(FromReqwest(r.error)))
            /\ UNCHANGED steps
       ELSE /\ Resolve(c, Assemble(resp[c].status, resp[c].headers, r.value))
            /\ steps' = [steps EXCEPT ![c] = Append(@, "assemble")]
    /\ UNCHANGED <<adapterVars, request, arg, performs, io, dropsSeen, wire, resp>>

\* one call on an adapter wrapping the reference transport
NextRef ==
    \/ \E req \in RefRequests : Call(1, req)
    \/ PollFirstRef(1)
    \/ \E r \in SendOutcomes : SendResolves(1, r)
    \/ \E r \in BytesOutcomes : BytesResolves(1, r)
    \/ DropFuture(1)

SpecRef == Init /\ [][NextRef]_vars

\* the executor polls every woken future again; nothing obliges the transport
\* to complete an exchange or the caller to issue, poll or drop
FairSpec == Spec /\ \A c \in Calls : WF_vars(Resume(c))

(* ------------------------------- claims -------------------------------- *)

Ready(c) == pc[c] = "ready"

\* C1: whenever perform returned an error for a call's request, the call
\* resolved to that very error value and not to a Response.
ErrorPropagation ==
    \A c \in Calls :
        (Ready(c) /\ io[c].tag = "Err") =>
            /\ result[c].tag = "Err"
            /\ result[c].error = io[c].error
            /\ result[c] = performed[c]

ErrorPropagationWitness ==
    \E c \in Calls : Ready(c) /\ io[c].tag = "Err" /\ result[c].tag = "Err"

\* C2: whenever perform returned a Response, of any status, the call resolved
\* to a Response with the same status, headers and body, and not to an error.
SuccessPassThrough ==
    \A c \in Calls :
        (Ready(c) /\ io[c].tag = "Ok") =>
            /\ result[c].tag = "Ok"
            /\ result[c].value.status = io[c].value.status
            /\ result[c].value.headers = io[c].value.headers
            /\ result[c].value.body = io[c].value.body

SuccessPassThroughWitness ==
    \E c \in Calls :
        Ready(c) /\ io[c].tag = "Ok" /\ io[c].value.status = 500 /\ result[c].tag = "Ok"

\* C3: every resolved call holds the outcome the transport produced for the
\* call's own request: perform was given the request the call was invoked with,
\* and the result is the outcome of that exchange, which carries that request's
\* token.
ConcurrencySafety ==
    \A c \in Calls :
        /\ pc[c] \in {"pending", "ready"} => arg[c] = request[c]
        /\ io[c] # None => io[c] \in Outcomes(request[c])
        /\ Ready(c) => (result[c] = io[c] /\ result[c] \in Outcomes(request[c]))

\* two calls with different tokens were in flight at once and resolved in the
\* order opposite to their invocation
ConcurrencySafetyWitness ==
    /\ finished = <<2, 1>>
    /\ request[1] # request[2]
    /\ result[1].tag = "Ok"
    /\ result[2].tag = "Ok"

WellFormed(r) ==
    \/ /\ DOMAIN r = {"tag", "value"}
       /\ r.tag = "Ok"
       /\ DOMAIN r.value = {"status", "headers", "body"}
    \/ /\ DOMAIN r = {"tag", "error"}
       /\ r.tag = "Err"

\* C4: a call that completed resolved exactly once, to exactly one of a fully
\* formed Response or an error; a call that did not complete holds no result.
NoPartialSuccess ==
    \A c \in Calls :
        /\ Ready(c) => (WellFormed(result[c]) /\ resolutions[c] = 1)
        /\ ~Ready(c) => (result[c] = None /\ resolutions[c] = 0)

NoPartialSuccessWitness ==
    \E c, d \in Calls :
        /\ Ready(c) /\ result[c].tag = "Ok"
        /\ Ready(d) /\ result[d].tag = "Err"

\* C5: a call invokes perform at most once, exactly once when it completed and
\* not at all before its first poll, whatever perform returned, and always on
\* the transport the adapter was built with.
NoRetry ==
    \A c \in Calls :
        /\ performs[c] <= 1
        /\ Ready(c) => performs[c] = 1
        /\ pc[c] \in {"none", "created"} => performs[c] = 0
        /\ Live(c) => handle[c].pool = Handle0.pool

NoRetryWitness ==
    \E c \in Calls : Ready(c) /\ io[c].tag = "Err" /\ performs[c] = 1

\* a dropped future holds no result
DroppedHoldsNothing ==
    \A c \in Calls :
        pc[c] = "dropped" =>
            (result[c] = None /\ performed[c] = None /\ resolutions[c] = 0)

\* every step a call or its transport is at can be taken, whatever the other
\* calls did: drop needs only a live future, call only a live adapter
AdapterUsable ==
    \A d \in Calls :
        /\ Live(d) => ENABLED DropFuture(d)
        /\ pc[d] = "created" => ENABLED PollFirst(d)
        /\ (pc[d] = "pending" /\ io[d] = None) =>
               \A o \in Outcomes(arg[d]) : ENABLED TransportComplete(d, o)
        /\ (pc[d] = "pending" /\ io[d] # None) => ENABLED Resume(d)
        /\ (adapterAlive /\ d = Cardinality(Issued) + 1) =>
               \A req \in Requests : ENABLED Call(d, req)

DropStep(c) == pc[c] # "dropped" /\ pc'[c] = "dropped"

\* C6: a dropped future holds no result and stays dropped; dropping needs
\* nothing but a live future, changes neither the adapter nor any other call,
\* and afterwards the other calls can still take every step of theirs.
Cancellation ==
    /\ [](DroppedHoldsNothing /\ AdapterUsable)
    /\ [][\A c \in Calls :
            /\ pc[c] = "dropped" => pc'[c] = "dropped"
            /\ DropStep(c) =>
                  /\ UNCHANGED adapterVars
                  /\ \A d \in Calls \ {c} :
                        /\ pc'[d] = pc[d]
                        /\ handle'[d] = handle[d]
                        /\ io'[d] = io[d]
                        /\ result'[d] = result[d]]_vars

\* a call invoked after another call's future was dropped has resolved
CancellationWitness ==
    \E c, d \in Calls :
        /\ pc[c] = "dropped"
        /\ performs[c] = 1
        /\ c \in dropsSeen[d]
        /\ Ready(d)
        /\ result[d].tag = "Ok"

\* a call whose transport operation completed can be resumed at once
NoLock ==
    \A c \in Calls : (pc[c] = "pending" /\ io[c] # None) => ENABLED Resume(c)

\* C7: a call whose transport operation completed can be resumed whatever the
\* other calls are doing, and under fair polling it does resolve unless its
\* caller drops it, also when another call never completes.
IndependentCompletion ==
    /\ []NoLock
    /\ \A c \in Calls :
          (pc[c] = "pending" /\ io[c] # None) ~> (Ready(c) \/ pc[c] = "dropped")

\* the later call has resolved while the earlier one is still waiting for its
\* transport
IndependentCompletionWitness ==
    /\ pc[1] = "pending"
    /\ io[1] = None
    /\ Ready(2)
    /\ finished = <<2>>

Absolute(u) == u.scheme # ""

Failed(c) ==
    \/ (wire[c] # None /\ wire[c].tag = "Err")
    \/ \E i \in 1..Len(peer[c]) : peer[c][i].tag = "Err"

\* C8: the outbound request perform hands to send() carries the input
\* request's method, URI, body and every header pair, duplicates included, and
\* nothing else; the Response perform returns carries exactly the status and
\* header pairs the peer answered send() with and the body bytes() delivered.
HeaderBodyFidelity ==
    \A c \in Calls :
        /\ (wire[c] # None /\ Absolute(request[c].uri)) =>
               wire[c] = Ok([method |-> request[c].method,
                             url |-> UrlOf(request[c].uri),
                             headers |-> request[c].headers,
                             body |-> request[c].body])
        /\ (wire[c] # None /\ ~Absolute(request[c].uri)) => wire[c].tag = "Err"
        /\ (Ready(c) /\ ~Failed(c)) =>
               /\ Len(peer[c]) = 2
               /\ performed[c] = Ok(MkResponse(peer[c][1].value.status,
                                               peer[c][1].value.headers,
                                               peer[c][2].value))
               /\ result[c] = performed[c]
        /\ (Ready(c) /\ result[c].tag = "Ok") => ~Failed(c)

\* a request with two values for one header name and a two-byte body was
\* answered with the like
HeaderBodyFidelityWitness ==
    \E c \in Calls :
        /\ Ready(c)
        /\ request[c].headers = <<(<<"a", "x">>), (<<"a", "y">>)>>
        /\ Len(request[c].body) = 2
        /\ wire[c].tag = "Ok"
        /\ result[c].tag = "Ok"
        /\ result[c].value.status = 500
        /\ result[c].value.headers = <<(<<"b", "x">>), (<<"a", "y">>)>>
        /\ result[c].value.body = <<1, 0>>

\* C9: a failure of send() or of bytes() makes perform return one error made
\* from that failure, with no step run after the failing one and no Response
\* assembled, and the call resolves to that error.
TransportFailure ==
    \A c \in Calls :
        /\ (Ready(c) /\ Failed(c)) =>
               /\ performed[c].tag = "Err"
               /\ result[c] = performed[c]
               /\ resolutions[c] = 1
        /\ (Ready(c) /\ wire[c].tag = "Err") =>
               /\ steps[c] = <<"send">>
               /\ peer[c] = <<>>
               /\ performed[c] = Err(FromReqwest(wire[c].error))
        /\ (Len(peer[c]) >= 1 /\ peer[c][1].tag = "Err") =>
               /\ Ready(c)
               /\ steps[c] = <<"send">>
               /\ Len(peer[c]) = 1
               /\ performed[c] = Err(FromReqwest(peer[c][1].error))
        /\ (Len(peer[c]) >= 2 /\ peer[c][2].tag = "Err") =>
               /\ Ready(c)
               /\ steps[c] = <<"send", "bytes">>
               /\ Len(peer[c]) = 2
               /\ performed[c] = Err(FromReqwest(peer[c][2].error))
        /\ (\E i \in 1..Len(steps[c]) : steps[c][i] = "assemble") => ~Failed(c)

\* the connection was refused and the call resolved to the error made from it
TransportFailureWitness ==
    \E c \in Calls :
        /\ Ready(c)
        /\ peer[c] = <<Err([kind |-> "connect", cause |-> "connection refused"])>>
        /\ result[c].tag = "Err"
        /\ result[c].error.cause.kind = "connect"

\* C10 as stated: the call does not depend on the adapter's lifetime, so the
\* adapter may be discarded while a call is pending.
CallIndependentOfAdapterLifetime ==
    (adapterAlive /\ \E c \in Calls : Live(c)) => ENABLED DropAdapter

\* C10 as amended: a live call holds a duplicate of its own of the adapter's
\* handle, on the same transport, and perform runs on it; call leaves the
\* adapter's handle as it was; and the adapter outlives every live call, whose
\* future holds the borrow of it.
HandleDuplication ==
    /\ adapterAlive => interface = Handle0
    /\ \A c \in Calls :
          Live(c) =>
              /\ adapterAlive
              /\ c \in borrows
              /\ handle[c] = [pool |-> Handle0.pool, owner |-> c]
              /\ handle[c].owner # interface.owner
    /\ \A c \in Calls : ~Live(c) => (handle[c] = None /\ c \notin borrows)

HandleDuplicationWitness ==
    \E c, d \in Calls :
        /\ c # d
        /\ pc[c] = "pending"
        /\ pc[d] = "pending"
        /\ handle[c] # handle[d]
        /\ interface = Handle0

=============================================================================
